---- MODULE Spec2Model ----
(***************************************************************************)
(* A model of src/main.py: the search job poller (SplunkService.search),   *)
(* the XML result decoder inside it, the field query mapping, and the      *)
(* batch loop of main() that drives process_item through a thread pool.    *)
(***************************************************************************)
EXTENDS Integers, Sequences, FiniteSets, TLC

\* ------------------------------------------------------------------ bounds
MaxPolls == 2      \* refreshes of one job before the model stops polling
MaxPairs == 6      \* rows the pairs query may return
MaxResults == 2    \* result nodes of a generated document
MaxFields == 2     \* field nodes of a generated document (all results together)

\* ------------------------------------------------------- program constants
batch_size == 5
max_workers == 5

\* Python's None, as a field value or a missing attribute.
None == "None"

\* ------------------------------------------------------------- XML documents
\* An element of xml.etree.ElementTree: tag, the attribute k, text, children.
Element(tag, k, text, kids) == [tag |-> tag, k |-> k, text |-> text, kids |-> kids]

RECURSIVE iter(_), iterAll(_)
\* Element.iter(): the element and all its descendants in document order.
iter(n) == <<n>> \o iterAll(n.kids)
iterAll(ns) == IF ns = <<>> THEN <<>> ELSE iter(Head(ns)) \o iterAll(Tail(ns))

\* findall('tag'): the direct children with that tag, in document order.
findall_children(node, tag) == SelectSeq(node.kids, LAMBDA n : n.tag = tag)

\* findall('.//tag') as search() uses it: the descendants of the element the
\* path starts at, in document order; the element itself is not a candidate.
findall_direct(root, tag) == findall_children(root, tag)
findall_descendants(root, tag) == SelectSeq(iterAll(root.kids), LAMBDA n : n.tag = tag)

RECURSIVE concatKids(_, _)
concatKids(ns, tag) ==
    IF ns = <<>> THEN <<>>
    ELSE findall_children(Head(ns), tag) \o concatKids(Tail(ns), tag)

\* find('value/text'): the matches of the two-step path, in document order.
find_value_text(field) == concatKids(findall_children(field, "value"), "text")

\* Lines 93-94: the text of the first value/text node, None without one.
field_value(field) ==
    IF find_value_text(field) # <<>> THEN Head(find_value_text(field)).text ELSE None

\* A dict as a function on its keys; d[k] = v as Python assigns it.
EmptyDict == [x \in {} |-> None]
dict_set_first(d, k, v) ==
    [x \in DOMAIN d \cup {k} |-> IF x \in DOMAIN d THEN d[x] ELSE v]
dict_set(d, k, v) ==
    [x \in DOMAIN d \cup {k} |-> IF x = k THEN v ELSE d[x]]

RECURSIVE result_dict_from(_, _)
\* Lines 90-95: the fields of one result node folded into result_dict.
result_dict_from(d, fields) ==
    IF fields = <<>> THEN d
    ELSE result_dict_from(dict_set(d, Head(fields).k, field_value(Head(fields))),
                          Tail(fields))

result_dict(result) == result_dict_from(EmptyDict, findall_children(result, "field"))

\* Lines 88-96: results_list of a parsed document.
decode(root) ==
    LET rs == findall_descendants(root, "result")
    IN  [j \in 1..Len(rs) |-> result_dict(rs[j])]

\* ------------------------------------------------- the service's documents
\* What raw_results.read() hands to ET.fromstring: a document that parses to
\* the tree root, or bytes that do not parse (a truncated document).
WellFormed(root) == [wf |-> TRUE, root |-> root]
Malformed == [wf |-> FALSE, root |-> Element("", None, None, <<>>)]

\* The service's markup for one field of a row: <field k=..> with a nested
\* <value><text>..</text></value>, or with no value at all.
FieldNode(k, v) ==
    Element("field", k, None,
            IF v = None THEN <<>>
            ELSE <<Element("value", None, None, <<Element("text", None, v, <<>>)>>)>>)

\* The service's document for a sequence of rows, each a sequence of <<k, v>>.
ResultsDoc(rows) ==
    Element("results", None, None,
            [j \in 1..Len(rows) |->
                Element("result", None, None,
                        [f \in 1..Len(rows[j]) |-> FieldNode(rows[j][f][1], rows[j][f][2])])])

\* ------------------------------------------------------ SplunkService.search
\* One execution of search(query, verbose): where it stands (pc), the job
\* (sid, 0 before jobs.create returned; done, the service's done flag; answer,
\* the document the service holds for the job), the locals raw_content and
\* results_list, the calls of job.cancel() made, and the exception raised.
SearchInit(answer, verbose) ==
    [pc |-> "create", verbose |-> verbose, sid |-> 0, done |-> FALSE,
     polls |-> 0, answer |-> answer, raw |-> Malformed, results_list |-> <<>>,
     cancels |-> 0, err |-> "none"]

SearchEnded(e) == e.pc \in {"returned", "raised"}

\* Lines 105-113: both handlers log and re-raise; neither touches the job.
Raise(e, kind) == [e EXCEPT !.pc = "raised", !.err = kind]

\* Line 64: self.service.jobs.create(query) returns a job or faults.
jobs_create(e) ==
    IF e.pc # "create" THEN {}
    ELSE {[e EXCEPT !.pc = "is_done", !.sid = 1], Raise(e, "Exception")}

\* The service completes the job while the poller waits for it.
job_finishes(e) ==
    IF e.sid # 0 /\ ~e.done /\ e.pc \in {"is_done", "refresh", "progress", "sleep"}
    THEN {[e EXCEPT !.done = TRUE]}
    ELSE {}

\* Line 69: while not job.is_done(). The loop is left only when the service
\* says done; MaxPolls caps the refreshes of a job that is not done.
is_done_negated(e) ==
    IF e.pc # "is_done" THEN {}
    ELSE {Raise(e, "Exception")}
         \cup (IF ~e.done THEN {[e EXCEPT !.pc = "results"]}
               ELSE IF e.polls < MaxPolls THEN {[e EXCEPT !.pc = "refresh"]}
               ELSE {})
is_done(e) ==
    IF e.pc # "is_done" THEN {}
    ELSE {Raise(e, "Exception")}
         \cup (IF e.done THEN {[e EXCEPT !.pc = "results"]}
               ELSE IF e.polls < MaxPolls THEN {[e EXCEPT !.pc = "refresh"]}
               ELSE {})

\* Line 70: job.refresh(), then line 72: if verbose.
refresh_always_verbose(e) ==
    IF e.pc # "refresh" THEN {}
    ELSE {[e EXCEPT !.pc = "progress", !.polls = e.polls + 1], Raise(e, "Exception")}
refresh(e) ==
    IF e.pc # "refresh" THEN {}
    ELSE {[e EXCEPT !.pc = IF e.verbose THEN "progress" ELSE "sleep",
                    !.polls = e.polls + 1],
          Raise(e, "Exception")}

\* Lines 73-75: the progress line of a verbose search.
progress(e) == IF e.pc # "progress" THEN {} ELSE {[e EXCEPT !.pc = "sleep"]}

\* Line 77: time.sleep(1), then back to the loop test.
sleep(e) == IF e.pc # "sleep" THEN {} ELSE {[e EXCEPT !.pc = "is_done"]}

\* Line 80: job.results(count=count).
results_call(e) ==
    IF e.pc # "results" THEN {}
    ELSE {[e EXCEPT !.pc = "read"], Raise(e, "Exception")}

\* Line 83: raw_results.read(): the job's document, whole or truncated.
read(e) ==
    IF e.pc # "read" THEN {}
    ELSE {[e EXCEPT !.pc = "parse", !.raw = WellFormed(e.answer)],
          [e EXCEPT !.pc = "parse", !.raw = Malformed],
          Raise(e, "Exception")}

\* Lines 87-98: ET.fromstring raises ParseError on bytes that do not parse;
\* otherwise results_list is built from the tree.
parse_lenient(e) ==
    IF e.pc # "parse" THEN {}
    ELSE IF ~e.raw.wf THEN {[e EXCEPT !.pc = "cancel", !.results_list = <<>>]}
    ELSE {[e EXCEPT !.pc = "cancel", !.results_list = decode(e.raw.root)]}
parse(e) ==
    IF e.pc # "parse" THEN {}
    ELSE IF ~e.raw.wf THEN {Raise(e, "ParseError")}
    ELSE {[e EXCEPT !.pc = "cancel", !.results_list = decode(e.raw.root)]}

\* Lines 101-103: job.cancel(), then return results_list.
cancel_before_fetch(e) ==
    IF e.pc # "cancel" THEN {}
    ELSE {[e EXCEPT !.pc = IF e.cancels = 0 THEN "results" ELSE "returned",
                    !.cancels = e.cancels + 1],
          Raise([e EXCEPT !.cancels = e.cancels + 1], "Exception")}
cancel(e) ==
    IF e.pc # "cancel" THEN {}
    ELSE {[e EXCEPT !.pc = "returned", !.cancels = e.cancels + 1],
          Raise([e EXCEPT !.cancels = e.cancels + 1], "Exception")}

\* One step of search() or of the service on its job.
SearchStep(e) ==
    jobs_create(e) \cup job_finishes(e) \cup is_done(e) \cup refresh(e)
    \cup progress(e) \cup sleep(e) \cup results_call(e) \cup read(e)
    \cup parse(e) \cup cancel(e)

RECURSIVE SearchReach(_, _)
SearchReach(frontier, seen) ==
    IF frontier = {} THEN seen
    ELSE LET next == UNION {SearchStep(e) : e \in frontier} \ seen
         IN  SearchReach(next, seen \cup next)

\* search() run from e to its end: every way it can return or raise.
search(e) == {t \in SearchReach({e}, {e}) : SearchEnded(t)}

\* ------------------------------------------------------------ service content
\* Names of the indices the service may hold, by row number.
IndexNames == <<"i1", "i2", "i3", "i4", "i5", "i6", "i7", "i8", "i9">>

\* A row of the pairs query: both keys, or (a malformed row) no sourcetype.
PairRow(p) == <<<<"index", IndexNames[p]>>, <<"sourcetype", "st">>>>
BadPairRow(p) == <<<<"index", IndexNames[p]>>>>

\* The rows the fields query returns for a pair: one "field" value per row,
\* with a repeated name and a row whose field has no value.
FieldsRows(index, sourcetype) ==
    << <<<<"field", "host">>>>, <<<<"field", index>>>>,
       <<<<"field", "host">>>>, <<<<"field", None>>>> >>

\* ---------------------------------------------------------------- state
VARIABLES
    ex,          \* the execution of search() under study
    ops,         \* the calls that execution made, in order
    doc_tag,     \* root tag of the document being generated
    doc_rows,    \* its result nodes: [fields, mode]
    pairs_rows,  \* the rows the service holds for the pairs query
    mpc,         \* where main() stands
    indices_and_sourcetypes,  \* main's local (line 197)
    i,           \* the batch loop's offset (line 204)
    tasks,       \* every work item handed to the executor, in order
    awaiting,    \* the tasks asyncio.gather is awaiting (indices into tasks)
    results,     \* main's local (line 202)
    error,       \* the exception main() ended with
    saved        \* what was written to splunk_fields.json, one entry per write

vars == <<ex, ops, doc_tag, doc_rows, pairs_rows, mpc, indices_and_sourcetypes,
          i, tasks, awaiting, results, error, saved>>

pollerVars == <<ex, ops>>
decodeVars == <<doc_tag, doc_rows>>
mainVars == <<pairs_rows, mpc, indices_and_sourcetypes, i, tasks, awaiting,
              results, error, saved>>

\* No execution under study.
NoExec == [SearchInit(ResultsDoc(<<>>), TRUE) EXCEPT !.pc = "none"]

\* ------------------------------------------- get_fields_for_sourcetype
Values(d) == {d[x] : x \in DOMAIN d}

\* Lines 134-140: the set of all values of all records; [] for no records.
fields_of(rs) ==
    IF rs = <<>> THEN {} ELSE UNION {Values(rs[j]) : j \in 1..Len(rs)}

\* ---------------------------------------------------------- process_item
\* A work item of the executor: the position of its pair, where the worker
\* stands (queued, polling, searched, returned, raised), what search gave
\* it, the FieldReport files it wrote and what it returned or raised.
NewTask(pos, item) ==
    [pos |-> pos, index |-> item["index"], sourcetype |-> item["sourcetype"],
     st |-> "queued", fields |-> {}, cancels |-> 0, written |-> 0, err |-> "none"]

Settled(t) == t.st \in {"returned", "raised"}
Running(t) == t.st \in {"polling", "searched"}

\* Lines 181-185: the dict process_item returns.
report(t) == [index |-> t.index, sourcetype |-> t.sourcetype, fields |-> t.fields]

\* Line 133: the search of the fields query, as the worker starts it.
FieldsSearch(index, sourcetype) ==
    SearchInit(ResultsDoc(FieldsRows(index, sourcetype)), TRUE)

\* How search() of the fields query can end once its job is submitted: what
\* it returned or raised and the job.cancel() calls made, per index.
FieldsSearchEnds ==
    [p \in 1..Len(IndexNames) |->
        {[pc |-> e.pc, err |-> e.err, cancels |-> e.cancels, results_list |-> e.results_list]
         : e \in UNION {search(c) : c \in {c \in jobs_create(FieldsSearch(IndexNames[p], "st"))
                                           : c.pc # "raised"}}}]

IndexNumber(index) == CHOOSE p \in 1..Len(IndexNames) : IndexNames[p] = index

\* Lines 170-171, up to jobs.create: the job is submitted or the call faults.
process_item_start(t) ==
    {IF e.pc = "raised" THEN [t EXCEPT !.st = "raised", !.err = e.err]
     ELSE [t EXCEPT !.st = "polling"] : e \in jobs_create(FieldsSearch(t.index, t.sourcetype))}

\* Lines 171-172: the rest of search() and the fields of its results.
process_item_search_swallowing(t) ==
    {IF e.pc = "raised"
     THEN [t EXCEPT !.st = "searched", !.cancels = e.cancels]
     ELSE [t EXCEPT !.st = "searched", !.fields = fields_of(e.results_list),
                    !.cancels = e.cancels]
     : e \in FieldsSearchEnds[IndexNumber(t.index)]}
process_item_search(t) ==
    {IF e.pc = "raised"
     THEN [t EXCEPT !.st = "raised", !.err = e.err, !.cancels = e.cancels]
     ELSE [t EXCEPT !.st = "searched", !.fields = fields_of(e.results_list),
                    !.cancels = e.cancels]
     : e \in FieldsSearchEnds[IndexNumber(t.index)]}

\* Lines 175-185: the FieldReport file is written and the report returned,
\* or open() fails and the worker raises.
process_item_write_skip(t) ==
    {[t EXCEPT !.st = "returned"], [t EXCEPT !.st = "raised", !.err = "OSError"]}
process_item_write(t) ==
    {[t EXCEPT !.st = "returned", !.written = t.written + 1],
     [t EXCEPT !.st = "raised", !.err = "OSError"]}

\* ------------------------------------------- get_indices_and_sourcetypes
\* The rows of the pairs query: n rows, at most one of them malformed.
PairsRows(n, bad) == [p \in 1..n |-> IF p = bad THEN BadPairRow(p) ELSE PairRow(p)]

\* How search() of the pairs query can end, for each content of the service:
\* what it returned or raised.
PairsSearchEnds ==
    [n \in 0..MaxPairs |-> [bad \in 0..n |->
        {[pc |-> e.pc, err |-> e.err, results_list |-> e.results_list]
         : e \in search(SearchInit(ResultsDoc(PairsRows(n, bad)), TRUE))}]]

\* Lines 121-122: search() of the pairs query on the rows the service holds.
get_indices_and_sourcetypes(rows) ==
    LET bad == {p \in 1..Len(rows) : Len(rows[p]) < 2}
    IN  PairsSearchEnds[Len(rows)][IF bad = {} THEN 0 ELSE CHOOSE p \in bad : TRUE]

\* ------------------------------------------------------------------ main
HasKeys(item) == "index" \in DOMAIN item /\ "sourcetype" \in DOMAIN item

Min(a, b) == IF a < b THEN a ELSE b

\* Line 205: indices_and_sourcetypes[i:i+batch_size].
batch_slice_long(list, at) == SubSeq(list, at + 1, Min(at + batch_size + 1, Len(list)))
batch_slice(list, at) == SubSeq(list, at + 1, Min(at + batch_size, Len(list)))

\* Lines 152-158: one run_in_executor per item, in order, until an item
\* lacks a key (KeyError at line 154 or 155); at is the batch's offset.
process_batch(batch, at) ==
    LET bad == {j \in 1..Len(batch) : ~HasKeys(batch[j])}
        n == IF bad = {} THEN Len(batch)
             ELSE (CHOOSE j \in bad : \A k \in bad : j <= k) - 1
    IN  [tasks |-> [j \in 1..n |-> NewTask(at + j, batch[j])],
         err |-> IF bad = {} THEN "none" ELSE "KeyError"]

\* Line 159: asyncio.gather(*tasks) returns once every task has returned,
\* with the results in the order of the tasks.
gather_any(ts, aw) == \E j \in 1..Len(aw) : ts[aw[j]].st = "returned"
gather_ready(ts, aw) == \A j \in 1..Len(aw) : ts[aw[j]].st = "returned"

gather_results_reversed(ts, aw) ==
    [j \in 1..Len(aw) |-> report(ts[aw[Len(aw) + 1 - j]])]
gather_results(ts, aw) == [j \in 1..Len(aw) |-> report(ts[aw[j]])]

\* Lines 197-198: the pairs query; its failure leaves main().
MainDiscoverSwallowing ==
    /\ mpc = "discover"
    /\ \E e \in get_indices_and_sourcetypes(pairs_rows) :
          /\ indices_and_sourcetypes' = e.results_list
          /\ mpc' = "loop"
          /\ error' = e.err
    /\ UNCHANGED <<pollerVars, decodeVars, pairs_rows, i, tasks, awaiting, results, saved>>
MainDiscover ==
    /\ mpc = "discover"
    /\ \E e \in get_indices_and_sourcetypes(pairs_rows) :
          IF e.pc = "returned"
          THEN /\ indices_and_sourcetypes' = e.results_list
               /\ mpc' = "loop"
               /\ error' = error
          ELSE /\ mpc' = "failed"
               /\ error' = e.err
               /\ UNCHANGED indices_and_sourcetypes
    /\ UNCHANGED <<pollerVars, decodeVars, pairs_rows, i, tasks, awaiting, results, saved>>

\* Lines 204-206: the next batch is cut and handed to the executor.
MainDispatch ==
    /\ mpc = "loop"
    /\ i < Len(indices_and_sourcetypes)
    /\ LET d == process_batch(batch_slice(indices_and_sourcetypes, i), i)
       IN  /\ tasks' = tasks \o d.tasks
           /\ IF d.err = "none"
              THEN /\ awaiting' = [j \in 1..Len(d.tasks) |-> Len(tasks) + j]
                   /\ mpc' = "gather"
                   /\ error' = error
              ELSE /\ awaiting' = <<>>
                   /\ mpc' = "shutdown"
                   /\ error' = d.err
    /\ UNCHANGED <<pollerVars, decodeVars, pairs_rows, indices_and_sourcetypes, i, results, saved>>

\* Lines 206-207: gather returned; the batch's results are appended.
MainGatherReturn ==
    /\ mpc = "gather"
    /\ gather_ready(tasks, awaiting)
    /\ results' = results \o gather_results(tasks, awaiting)
    /\ i' = i + batch_size
    /\ awaiting' = <<>>
    /\ mpc' = "loop"
    /\ UNCHANGED <<pollerVars, decodeVars, pairs_rows, indices_and_sourcetypes, tasks, error, saved>>

\* Line 206: gather raises the exception of a task that raised; main()
\* leaves the loop and the with block with it.
MainGatherRaise ==
    /\ mpc = "gather"
    /\ \E j \in 1..Len(awaiting) :
          /\ tasks[awaiting[j]].st = "raised"
          /\ error' = tasks[awaiting[j]].err
    /\ mpc' = "shutdown"
    /\ UNCHANGED <<pollerVars, decodeVars, pairs_rows, indices_and_sourcetypes, i, tasks,
                   awaiting, results, saved>>

\* Line 203: the with block left by an exception: the executor's
\* shutdown(wait=True) returns once every work item has finished.
MainShutdownNoWait ==
    /\ mpc = "shutdown"
    /\ mpc' = "failed"
    /\ UNCHANGED <<pollerVars, decodeVars, pairs_rows, indices_and_sourcetypes, i, tasks,
                   awaiting, results, error, saved>>
MainShutdown ==
    /\ mpc = "shutdown"
    /\ \A k \in 1..Len(tasks) : Settled(tasks[k])
    /\ mpc' = "failed"
    /\ UNCHANGED <<pollerVars, decodeVars, pairs_rows, indices_and_sourcetypes, i, tasks,
                   awaiting, results, error, saved>>

\* Lines 204, 203: the loop is over and the with block is left normally.
MainLoopExit ==
    /\ mpc = "loop"
    /\ i >= Len(indices_and_sourcetypes)
    /\ mpc' = "print"
    /\ UNCHANGED <<pollerVars, decodeVars, pairs_rows, indices_and_sourcetypes, i, tasks,
                   awaiting, results, error, saved>>

\* Line 210: print(json.dumps(results)).
MainPrint ==
    /\ mpc = "print"
    /\ mpc' = "save"
    /\ UNCHANGED <<pollerVars, decodeVars, pairs_rows, indices_and_sourcetypes, i, tasks,
                   awaiting, results, error, saved>>

\* Lines 213-215: splunk_fields.json is written, or open() fails.
MainSave ==
    /\ mpc = "save"
    /\ \/ /\ saved' = Append(saved, results)
          /\ mpc' = "done"
          /\ error' = error
       \/ /\ mpc' = "failed"
          /\ error' = "OSError"
          /\ saved' = saved
    /\ UNCHANGED <<pollerVars, decodeVars, pairs_rows, indices_and_sourcetypes, i, tasks,
                   awaiting, results>>

\* ------------------------------------------------------- the worker threads
Busy(ts) == Cardinality({k \in 1..Len(ts) : Running(ts[k])})

\* A thread of the pool takes a queued work item and submits its job.
WorkerStartUnlessLeft(k) ==
    /\ mpc = "gather"
    /\ tasks[k].st = "queued"
    /\ Busy(tasks) < max_workers
    /\ \E t \in process_item_start(tasks[k]) : tasks' = [tasks EXCEPT ![k] = t]
    /\ UNCHANGED <<pollerVars, decodeVars, pairs_rows, mpc, indices_and_sourcetypes, i,
                   awaiting, results, error, saved>>
WorkerStart(k) ==
    /\ tasks[k].st = "queued"
    /\ Busy(tasks) < max_workers
    /\ \E t \in process_item_start(tasks[k]) : tasks' = [tasks EXCEPT ![k] = t]
    /\ UNCHANGED <<pollerVars, decodeVars, pairs_rows, mpc, indices_and_sourcetypes, i,
                   awaiting, results, error, saved>>

\* The worker's search ends: it has the fields, or search raised.
WorkerSearch(k) ==
    /\ tasks[k].st = "polling"
    /\ \E t \in process_item_search(tasks[k]) : tasks' = [tasks EXCEPT ![k] = t]
    /\ UNCHANGED <<pollerVars, decodeVars, pairs_rows, mpc, indices_and_sourcetypes, i,
                   awaiting, results, error, saved>>

\* The worker writes its FieldReport file and returns.
WorkerWrite(k) ==
    /\ tasks[k].st = "searched"
    /\ \E t \in process_item_write(tasks[k]) : tasks' = [tasks EXCEPT ![k] = t]
    /\ UNCHANGED <<pollerVars, decodeVars, pairs_rows, mpc, indices_and_sourcetypes, i,
                   awaiting, results, error, saved>>

Init ==
    /\ ex = NoExec
    /\ ops = <<>>
    /\ doc_tag = "results"
    /\ doc_rows = <<>>
    /\ \E n \in 0..MaxPairs : \E bad \in 0..n : pairs_rows = PairsRows(n, bad)
    /\ mpc = "discover"
    /\ indices_and_sourcetypes = <<>>
    /\ i = 0
    /\ tasks = <<>>
    /\ awaiting = <<>>
    /\ results = <<>>
    /\ error = "none"
    /\ saved = <<>>

Next ==
    \/ MainDiscover
    \/ MainDispatch
    \/ MainGatherReturn
    \/ MainGatherRaise
    \/ MainShutdown
    \/ MainLoopExit
    \/ MainPrint
    \/ MainSave
    \/ \E k \in 1..Len(tasks) : WorkerStart(k)
    \/ \E k \in 1..Len(tasks) : WorkerSearch(k)
    \/ \E k \in 1..Len(tasks) : WorkerWrite(k)

Spec == Init /\ [][Next]_vars

\* ------------------------------------------- one execution of search()
\* The documents the service may hold for the job under study.
PollerAnswers ==
    {ResultsDoc(<<>>), ResultsDoc(<<PairRow(1)>>), ResultsDoc(FieldsRows("i1", "st"))}

MainIdle ==
    /\ pairs_rows = <<>>
    /\ mpc = "off"
    /\ indices_and_sourcetypes = <<>>
    /\ i = 0
    /\ tasks = <<>>
    /\ awaiting = <<>>
    /\ results = <<>>
    /\ error = "none"
    /\ saved = <<>>

InitPoller ==
    /\ \E a \in PollerAnswers : \E v \in BOOLEAN : ex = SearchInit(a, v)
    /\ ops = <<>>
    /\ doc_tag = "results"
    /\ doc_rows = <<>>
    /\ MainIdle

\* search() makes the call it stands at; ops records the calls in order.
\* Line 64.
PollerCreate ==
    /\ ex' \in jobs_create(ex)
    /\ ops' = Append(ops, "create")
    /\ UNCHANGED <<decodeVars, mainVars>>

\* Line 69.
PollerIsDone ==
    /\ ex' \in is_done(ex)
    /\ ops' = Append(ops, "is_done")
    /\ UNCHANGED <<decodeVars, mainVars>>

\* Lines 70-72.
PollerRefresh ==
    /\ ex' \in refresh(ex)
    /\ ops' = Append(ops, "refresh")
    /\ UNCHANGED <<decodeVars, mainVars>>

\* Lines 73-75.
PollerProgress ==
    /\ ex' \in progress(ex)
    /\ ops' = Append(ops, "progress")
    /\ UNCHANGED <<decodeVars, mainVars>>

\* Line 77.
PollerSleep ==
    /\ ex' \in sleep(ex)
    /\ ops' = Append(ops, "sleep")
    /\ UNCHANGED <<decodeVars, mainVars>>

\* Line 80.
PollerResults ==
    /\ ex' \in results_call(ex)
    /\ ops' = Append(ops, "results")
    /\ UNCHANGED <<decodeVars, mainVars>>

\* Line 83.
PollerRead ==
    /\ ex' \in read(ex)
    /\ ops' = Append(ops, "read")
    /\ UNCHANGED <<decodeVars, mainVars>>

\* Lines 87-98.
PollerParse ==
    /\ ex' \in parse(ex)
    /\ ops' = Append(ops, "parse")
    /\ UNCHANGED <<decodeVars, mainVars>>

\* Lines 101-103.
PollerCancel ==
    /\ ex' \in cancel(ex)
    /\ ops' = Append(ops, "cancel")
    /\ UNCHANGED <<decodeVars, mainVars>>

\* The service completes the job.
JobFinishes ==
    /\ ex' \in job_finishes(ex)
    /\ UNCHANGED <<ops, decodeVars, mainVars>>

NextPoller ==
    \/ PollerCreate
    \/ PollerIsDone
    \/ PollerRefresh
    \/ PollerProgress
    \/ PollerSleep
    \/ PollerResults
    \/ PollerRead
    \/ PollerParse
    \/ PollerCancel
    \/ JobFinishes

SpecPoller == InitPoller /\ [][NextPoller]_vars

\* ------------------------------------------------ documents for the decoder
RootTags == {"results", "result", "data"}
Modes == {"flat", "wrapped", "nested"}

\* The field nodes a generated result may hold: with a value text, with no
\* value, with a value that has no text node, with an empty text node.
GenFields ==
    {FieldNode(k, v) : k \in {"k1", "k2"}, v \in {None, "a"}}
    \cup {Element("field", "k1", None, <<Element("value", None, None, <<>>)>>),
          Element("field", "k2", None,
                  <<Element("value", None, None, <<Element("text", None, None, <<>>)>>)>>)}

\* A result node put inside the result of the last item of a document.
AddInside(item, node) ==
    IF item.tag = "result" THEN [item EXCEPT !.kids = Append(@, node)]
    ELSE [item EXCEPT !.kids = <<[@[1] EXCEPT !.kids = Append(@, node)]>>]

RECURSIVE BuildItems(_, _)
\* The children of the root for the rows: a flat row is a result child of the
\* root, a wrapped one sits in a group element, a nested one in the result
\* before it.
BuildItems(acc, rows) ==
    IF rows = <<>> THEN acc
    ELSE LET r == Head(rows)
             node == Element("result", None, None, r.fields)
         IN  BuildItems(
                 CASE r.mode = "flat" -> Append(acc, node)
                   [] r.mode = "wrapped" -> Append(acc, Element("group", None, None, <<node>>))
                   [] OTHER -> [acc EXCEPT ![Len(acc)] = AddInside(@, node)],
                 Tail(rows))

Document == Element(doc_tag, None, None, BuildItems(<<>>, doc_rows))

RECURSIVE SumLen(_)
SumLen(rows) == IF rows = <<>> THEN 0 ELSE Len(Head(rows).fields) + SumLen(Tail(rows))

InitDecode ==
    /\ ex = NoExec
    /\ ops = <<>>
    /\ doc_tag \in RootTags
    /\ doc_rows = <<>>
    /\ MainIdle

\* The document gets one more result node.
GenResult ==
    /\ ex.pc = "none"
    /\ Len(doc_rows) < MaxResults
    /\ \E m \in Modes :
          /\ m = "nested" => doc_rows # <<>>
          /\ doc_rows' = Append(doc_rows, [fields |-> <<>>, mode |-> m])
    /\ UNCHANGED <<ex, ops, doc_tag, mainVars>>

\* The last result node gets one more field node.
GenField ==
    /\ ex.pc = "none"
    /\ doc_rows # <<>>
    /\ SumLen(doc_rows) < MaxFields
    /\ \E f \in GenFields :
          doc_rows' = [doc_rows EXCEPT ![Len(doc_rows)].fields = Append(@, f)]
    /\ UNCHANGED <<ex, ops, doc_tag, mainVars>>

\* Lines 87-96 on the document: search() parses what it read.
DecodeDocument ==
    /\ ex.pc = "none"
    /\ ex' \in parse([NoExec EXCEPT !.pc = "parse", !.sid = 1, !.done = TRUE,
                                    !.answer = Document, !.raw = WellFormed(Document)])
    /\ UNCHANGED <<ops, decodeVars, mainVars>>

NextDecode == GenResult \/ GenField \/ DecodeDocument

SpecDecode == InitDecode /\ [][NextDecode]_vars

\* ================================================================ properties
Range(seq) == {seq[j] : j \in 1..Len(seq)}
Group(pos) == (pos - 1) \div batch_size
Unsettled == {k \in 1..Len(tasks) : ~Settled(tasks[k])}
LoopOver == mpc \in {"print", "save", "done"}

\* C1: whenever an execution of search() whose job was submitted has returned
\* or raised, job.cancel() has been called exactly once on the job.
C1_ReleaseOnEveryExit ==
    (SearchEnded(ex) /\ ex.sid # 0) => ex.cancels = 1

\* C2: the aggregate holds, at position p, the report of the worker for the
\* p-th pair (its index, its sourcetype, the fields the service holds for
\* it), whatever the order in which the workers finished; once the loop is
\* over it has one entry per pair.
C2_AggregateInInputOrder ==
    /\ Len(results) <= Len(indices_and_sourcetypes)
    /\ \A p \in 1..Len(results) :
          /\ results[p].index = indices_and_sourcetypes[p]["index"]
          /\ results[p].sourcetype = indices_and_sourcetypes[p]["sourcetype"]
          /\ results[p].fields =
                {r[1][2] : r \in Range(FieldsRows(results[p].index, results[p].sourcetype))}
          /\ results[p] = report(tasks[p])
    /\ LoopOver => Len(results) = Len(indices_and_sourcetypes)

C2_Witness ==
    /\ mpc = "done"
    /\ Len(results) > batch_size
    /\ Len(saved) = 1

\* C3: a worker whose search raised never makes main() end with that
\* exception: main() fails only when the pairs query failed.
C3_WorkerFailureIsolated ==
    ~(mpc \in {"shutdown", "failed"} /\ tasks # <<>> /\ error \in {"Exception", "ParseError"})

\* C4: a task of a later batch exists only when every task of every earlier
\* batch has settled and its result is in the aggregate.
C4_GroupsInOrder ==
    \A a \in 1..Len(tasks) : \A b \in 1..Len(tasks) :
        Group(tasks[a].pos) < Group(tasks[b].pos)
            => Settled(tasks[a]) /\ tasks[a].pos <= Len(results)

C4_Witness ==
    \E b \in 1..Len(tasks) : tasks[b].pos > batch_size /\ tasks[b].st = "polling"

\* C5: at most max_workers tasks run a job, at most batch_size tasks are
\* dispatched and unsettled, and all of these are of the current batch.
C5_BoundedInFlight ==
    /\ Busy(tasks) <= max_workers
    /\ Cardinality(Unsettled) <= batch_size
    /\ \A k \in Unsettled : Group(tasks[k].pos) = i \div batch_size

C5_Witness ==
    /\ Busy(tasks) = max_workers
    /\ Cardinality(Unsettled) = batch_size

\* C6: when the pairs query failed, main() has ended with that exception, no
\* work item was ever handed to the executor and nothing was written.
DiscoveryFailed ==
    error \in {"Exception", "ParseError"} /\ indices_and_sourcetypes = <<>>

C6_DiscoveryFailureWritesNothing ==
    DiscoveryFailed => (mpc = "failed" /\ tasks = <<>> /\ saved = <<>> /\ results = <<>>)

C6_Witness == DiscoveryFailed /\ pairs_rows # <<>>

\* C7: splunk_fields.json is written at most once, and when it is written
\* every pair has exactly one task, which wrote exactly one FieldReport file.
C7_OneWritePerPairThenAggregate ==
    /\ Len(saved) <= 1
    /\ mpc = "done" => Len(saved) = 1
    /\ saved # <<>> =>
          /\ Len(tasks) = Len(indices_and_sourcetypes)
          /\ \A p \in 1..Len(indices_and_sourcetypes) :
                tasks[p].pos = p /\ tasks[p].written = 1

C7_Witness ==
    /\ saved # <<>>
    /\ Len(indices_and_sourcetypes) > batch_size

\* C8: a failed write of a FieldReport file or of splunk_fields.json never
\* makes main() leave its loop or end with the exception.
C8_SinkFailureNotFatal ==
    ~(mpc \in {"shutdown", "failed"} /\ error = "OSError")

\* C9: results are fetched, and search() returns, only when the service has
\* said the job is done; while it says not done the loop test leads only to
\* another refresh (or to a fault), never out of the loop.
Fetched == \E j \in 1..Len(ops) : ops[j] = "results"

C9_FetchOnlyWhenDone ==
    /\ []((Fetched \/ ex.pc \in {"results", "read", "parse", "cancel", "returned"}) => ex.done)
    /\ [][(ex.pc = "is_done" /\ ~ex.done) => ex'.pc \in {"is_done", "refresh", "raised"}]_vars

C9_Witness ==
    /\ ex.pc = "returned"
    /\ ex.polls >= 1

\* C10 as stated: the decoder returns one record per result node of the
\* document, the root included when it is a result node.
Decoded == ex.pc = "cancel"
ResultNodes == SelectSeq(iter(Document), LAMBDA n : n.tag = "result")

C10_OneRecordPerResultNode ==
    Decoded => Len(ex.results_list) = Len(ResultNodes)

\* C10, amended: the decoder returns one record per result node below the
\* root, in document order, the keys of each record being the names of that
\* node's field children, so at most as many as it has field children.
C10_OneRecordPerResultBelowRoot ==
    Decoded =>
        /\ Len(ex.results_list) = Len(doc_rows)
        /\ \A j \in 1..Len(doc_rows) :
              /\ DOMAIN ex.results_list[j] = {f.k : f \in Range(doc_rows[j].fields)}
              /\ Cardinality(DOMAIN ex.results_list[j]) <= Len(doc_rows[j].fields)

C10_Witness ==
    /\ Decoded
    /\ doc_tag = "result"
    /\ Len(doc_rows) = 2
    /\ doc_rows[2].mode = "nested"
    /\ Len(ex.results_list) = 2

\* C11: when the bytes read for a done job do not parse, search() has raised
\* ParseError, which is not the exception of a service fault, and it has
\* returned no results, neither some nor an empty list.
Called(name) == \E j \in 1..Len(ops) : ops[j] = name
ParsedMalformed == Called("parse") /\ ~ex.raw.wf

C11_MalformedRaisesParseError ==
    ParsedMalformed =>
        /\ ex.pc = "raised"
        /\ ex.err = "ParseError"
        /\ ex.err # "Exception"
        /\ ex.results_list = <<>>

C11_Witness == ParsedMalformed /\ ex.done /\ ex.pc = "raised"

\* C12: the fields a worker has for its pair are the distinct values of the
\* rows of the fields query that are not null.
HasFields(t) == t.st \in {"searched", "returned"}
NonNullValues(rows) == {r[1][2] : r \in Range(rows)} \ {None}

C12_FieldsDropNull ==
    \A k \in 1..Len(tasks) :
        HasFields(tasks[k])
            => tasks[k].fields = NonNullValues(FieldsRows(tasks[k].index, tasks[k].sourcetype))

\* C13: when a row of the pairs query lacks a key, no job of the fields
\* query is submitted and no FieldReport file is written in the run.
MalformedPair == \E p \in 1..Len(indices_and_sourcetypes) : ~HasKeys(indices_and_sourcetypes[p])

C13_MappingFailsBeforeAnyJob ==
    MalformedPair => \A k \in 1..Len(tasks) : tasks[k].st = "queued" /\ tasks[k].written = 0

\* C14: once a task has raised, every other task handed to the executor can
\* still take its next step (start its job, end its search, write its file),
\* whatever main() is doing, and a task that returned has written its file.
SomeRaised == \E k \in 1..Len(tasks) : tasks[k].st = "raised"

C14_SiblingsNotCancelled ==
    SomeRaised =>
        \A k \in 1..Len(tasks) :
            /\ tasks[k].st = "queued" => ENABLED WorkerStart(k)
            /\ tasks[k].st = "polling" => ENABLED WorkerSearch(k)
            /\ tasks[k].st = "searched" => ENABLED WorkerWrite(k)
            /\ tasks[k].st = "returned" => tasks[k].written = 1

C14_Witness ==
    /\ mpc = "shutdown"
    /\ \E a \in 1..Len(tasks) : \E b \in 1..Len(tasks) : \E c \in 1..Len(tasks) :
          /\ tasks[a].st = "raised"
          /\ tasks[b].st = "queued"
          /\ tasks[c].st = "returned"

\* C15: the calls of one execution start with jobs.create; job.cancel() is
\* called at most once, as the last call, and only after job.results() was
\* called exactly once and its bytes read and parsed; an execution that
\* returned made exactly the calls create, the polling calls, results, read,
\* parse, cancel, in this order.
Count(name) == Cardinality({j \in 1..Len(ops) : ops[j] = name})
PollingCalls == {"is_done", "refresh", "progress", "sleep"}

C15_CallOrder ==
    /\ ops # <<>> => ops[1] = "create"
    /\ Count("create") <= 1 /\ Count("results") <= 1 /\ Count("cancel") <= 1
    /\ \A j \in 1..Len(ops) :
          /\ ops[j] = "cancel" =>
                /\ j = Len(ops)
                /\ j >= 5
                /\ ops[j - 3] = "results" /\ ops[j - 2] = "read" /\ ops[j - 1] = "parse"
          /\ ops[j] = "results" => \A h \in (j + 1)..Len(ops) : ops[h] \notin PollingCalls
          /\ ops[j] \in PollingCalls => \A h \in 1..(j - 1) : ops[h] \in PollingCalls \cup {"create"}
    /\ ex.pc = "returned" =>
          /\ Count("results") = 1 /\ Count("cancel") = 1
          /\ ex.cancels = 1
          /\ ops[Len(ops)] = "cancel"

C15_Witness ==
    /\ ex.pc = "returned"
    /\ Count("refresh") >= 1
    /\ ex.cancels = 1

\* C17: a verbose search logs its progress exactly once after each refresh
\* and before the sleep that follows; a search that is not verbose logs no
\* progress; either way a refresh is followed by the sleep, the sleep by the
\* loop test, and the loop test by a refresh or by the fetch.
After(j) == IF j < Len(ops) THEN ops[j + 1] ELSE "end"
SkipProgress(j) == IF After(j) = "progress" THEN After(j + 1) ELSE After(j)

C17_ProgressPerRefresh ==
    /\ ex.verbose => Count("progress") = Count("refresh") - (IF ex.pc = "progress" THEN 1 ELSE 0)
                       - (IF ex.pc = "raised" /\ ops[Len(ops)] = "refresh" THEN 1 ELSE 0)
    /\ ~ex.verbose => Count("progress") = 0
    /\ \A j \in 1..Len(ops) :
          /\ (ops[j] = "refresh" /\ ex.verbose) => After(j) \in {"progress", "end"}
          /\ ops[j] = "progress" => (j > 1 /\ ops[j - 1] = "refresh" /\ After(j) \in {"sleep", "end"})
          /\ ops[j] = "refresh" => SkipProgress(j) \in {"sleep", "end"}
          /\ ops[j] = "sleep" => After(j) \in {"is_done", "end"}
          /\ ops[j] = "is_done" => After(j) \in {"refresh", "results", "end"}

C17_Witness ==
    /\ ex.verbose
    /\ \E j \in 1..Len(ops) :
          ops[j] = "refresh" /\ After(j) = "progress" /\ After(j + 1) = "sleep"
    /\ ex.pc = "returned"

\* C16: in the record of a result node every name of its field children is a
\* key; its value is that of the last field child with the name: the text of
\* its value/text node, null when it has none; a result node without field
\* children gives the empty record.
ValueOf(f) == IF f = FieldNode(f.k, "a") THEN "a" ELSE None
LastWith(fields, key) ==
    CHOOSE n \in 1..Len(fields) :
        /\ fields[n].k = key
        /\ \A h \in (n + 1)..Len(fields) : fields[h].k # key

C16_LastSeenWins ==
    Decoded =>
        \A j \in 1..Len(doc_rows) :
            LET fs == doc_rows[j].fields
                rec == ex.results_list[j]
            IN  /\ \A n \in 1..Len(fs) :
                      /\ fs[n].k \in DOMAIN rec
                      /\ rec[fs[n].k] = ValueOf(fs[LastWith(fs, fs[n].k)])
                /\ fs = <<>> => DOMAIN rec = {}

C16_Witness ==
    /\ Decoded
    /\ \E j \in 1..Len(doc_rows) :
          /\ Len(doc_rows[j].fields) = 2
          /\ doc_rows[j].fields[1] = FieldNode("k1", "a")
          /\ doc_rows[j].fields[2] = FieldNode("k1", None)
          /\ ex.results_list[j]["k1"] = None
    /\ \E j \in 1..Len(doc_rows) : doc_rows[j].fields = <<>> /\ DOMAIN ex.results_list[j] = {}

\* C18: once main() has left the batch loop, normally or with an exception,
\* every work item handed to the executor has finished, and from then on no
\* task changes: no job is polled and no FieldReport file is written.
BatchPhaseOver == mpc \in {"print", "save", "done", "failed"}

C18_NoTaskOutlivesBatchPhase ==
    /\ [](BatchPhaseOver => \A k \in 1..Len(tasks) : Settled(tasks[k]))
    /\ [][BatchPhaseOver => tasks' = tasks]_vars

C18_Witness ==
    /\ mpc = "failed"
    /\ error = "KeyError"
    /\ \E a \in 1..Len(tasks) : \E b \in 1..Len(tasks) :
          tasks[a].st = "raised" /\ tasks[b].st = "returned"

\* C20: a task has written at most one FieldReport file, and has written it
\* only when its search returned: the job was cancelled once and the task
\* holds the fields decoded from the job's document; a task whose search
\* raised wrote nothing; no pair has two tasks.
C20_WriteOnlyAfterSearchReturned ==
    \A k \in 1..Len(tasks) :
        LET t == tasks[k]
        IN  /\ t.written <= 1
            /\ t.written = 1 =>
                  /\ t.st = "returned"
                  /\ t.cancels = 1
                  /\ t.fields = fields_of(decode(ResultsDoc(FieldsRows(t.index, t.sourcetype))))
            /\ (t.st = "raised" \/ t.cancels = 0) => t.written = 0
            /\ \A h \in 1..Len(tasks) : tasks[h].pos = t.pos => h = k

C20_Witness ==
    \E a \in 1..Len(tasks) : \E b \in 1..Len(tasks) :
        /\ tasks[a].written = 1 /\ tasks[a].cancels = 1
        /\ tasks[b].st = "raised" /\ tasks[b].err = "ParseError" /\ tasks[b].written = 0

\* ------------------------------------------------------- fault-free runs
\* No service, decode, mapping or sink fault: nothing has raised, the bytes
\* read parse, and every row of the pairs query has both keys.
NoFault ==
    /\ error = "none"
    /\ \A k \in 1..Len(tasks) : tasks[k].st # "raised"
    /\ ex.err = "none"
    /\ ex.pc = "parse" => ex.raw.wf
    /\ \A p \in 1..Len(pairs_rows) : Len(pairs_rows[p]) = 2

\* A step of main(), of a worker, of the execution under study or of the
\* service that brings no fault.
LiveNext == (Next \/ NextPoller) /\ NoFault'

\* The runs of main() and of one search() without faults, in which whatever
\* can run does run and the service completes the job it was given.
InitLive == (Init \/ InitPoller) /\ NoFault

SpecLive ==
    /\ InitLive
    /\ [][LiveNext]_vars
    /\ WF_vars(LiveNext)
    /\ WF_vars(JobFinishes)

\* C19: without faults and with the job completing, search() eventually
\* returns, and main() eventually writes the aggregate, which holds one entry
\* per pair.
SearchReturned == mpc = "off" /\ ex.pc = "returned"
AggregateWritten ==
    mpc = "done" /\ saved = <<results>> /\ Len(results) = Len(pairs_rows)

C19_EventuallyAggregate == <>(SearchReturned \/ AggregateWritten)

C19_Witness ==
    /\ AggregateWritten
    /\ Len(results) > batch_size

====
